---- MODULE Spec2Model ----
(***************************************************************************)
(* The interview workflow of script.py: a LangGraph state graph with the   *)
(* nodes handle_next_question, handle_followup_question,                   *)
(* human_answer_question and judge_candidate, driven by the click command  *)
(* `interview`.                                                            *)
(*                                                                         *)
(* Python strings are modelled as sequences of tokens, so that "+" is \o,  *)
(* "" is <<>> and `not s` is s = <<>>.  The tokens are the three literals  *)
(* the code concatenates ("\n", "QUESTION: ", "ANSWER: ") and the atoms    *)
(* that make up generated and typed texts.                                 *)
(***************************************************************************)
EXTENDS Integers, Sequences, FiniteSets, TLC

\* Largest value of --max_questions explored.
MaxQ == 2
\* Largest value of the max_followups parameter of setup_graph_nodes explored.
MaxF == 1

\* The string literals of lines 81-82, 98-99 and 106-107.
NL == "\n"
QUESTION == "QUESTION: "
ANSWER == "ANSWER: "

\* question.content returned by llm.invoke for a question prompt (non-empty,
\* one line).  One text keeps the state space small enough to explore longer
\* interviews; the answers carry the variation of the transcript.
QuestionTexts == {<<"q1">>}
\* question.content returned by llm.invoke for the judgement prompt.
JudgementTexts == {<<"hire">>}
\* What input("Answer: ") can return: the empty line, a line of one space,
\* and an ordinary line.
InputTexts == {<<>>, <<" ">>, <<"a">>}

\* Values of the --max_questions option: click infers an int option from
\* default=1 and accepts any integer, zero and negatives included.
MaxQuestionsOptions == {-1, 0} \cup (1..MaxQ)
\* Values of the max_followups parameter (interview passes the literal 1).
MaxFollowupsOptions == 0..MaxF

VARIABLES
    pc,               \* position of the interview command
    role_given,       \* --role present on the command line
    filename_given,   \* FILENAME present and naming an existing file
    max_questions,    \* --max_questions
    max_followups,    \* max_followups of setup_graph_nodes
    state,            \* the checkpointed State of the thread
    next_node,        \* the node the graph runs next ("none": no thread yet)
    answer,           \* local variable answer of interview
    out,              \* last line written to the terminal
    question_calls,   \* llm.invoke calls made for question prompts
    judgement_calls   \* llm.invoke calls made for the judgement prompt

vars == <<pc, role_given, filename_given, max_questions, max_followups, state,
          next_node, answer, out, question_calls, judgement_calls>>

\* total_questions is unbounded when the judgement condition can never be
\* met; the model follows a run up to one primary question past
\* max_questions, and up to two primary questions when max_questions is not
\* positive.
QuestionCap == IF max_questions >= 1 THEN max_questions + 1 ELSE 2

\* The input of the first app.invoke; "question" has no value yet.
InitialInput ==
    [question |-> <<>>,
     question_history |-> <<>>,
     history |-> <<>>,
     total_followups |-> 0,
     total_questions |-> 0,
     result |-> <<>>]

\* Variant: total_questions is advanced by two.
handle_next_question_counts_twice(s, q) ==
    [s EXCEPT !.question = q,
              !.total_questions = s.total_questions + 2,
              !.total_followups = 0,
              !.history = s.history \o <<NL>> \o <<QUESTION>> \o q,
              !.question_history = <<QUESTION>> \o q]

\* Variant: total_followups is not reset for the new primary question.
handle_next_question_keeps_followups(s, q) ==
    [s EXCEPT !.question = q,
              !.total_questions = s.total_questions + 1,
              !.history = s.history \o <<NL>> \o <<QUESTION>> \o q,
              !.question_history = <<QUESTION>> \o q]

\* Variant: the new question is appended to the current thread.
handle_next_question_keeps_thread(s, q) ==
    [s EXCEPT !.question = q,
              !.total_questions = s.total_questions + 1,
              !.total_followups = 0,
              !.history = s.history \o <<NL>> \o <<QUESTION>> \o q,
              !.question_history = s.question_history \o <<NL>> \o <<QUESTION>> \o q]

handle_next_question(s, q) ==
    [s EXCEPT !.question = q,
              !.total_questions = s.total_questions + 1,
              !.total_followups = 0,
              !.history = s.history \o <<NL>> \o <<QUESTION>> \o q,
              !.question_history = <<QUESTION>> \o q]

\* Variant: total_followups is advanced by two.
handle_followup_question_counts_twice(s, q) ==
    [s EXCEPT !.question = q,
              !.total_followups = s.total_followups + 2,
              !.history = s.history \o <<NL>> \o <<QUESTION>> \o q,
              !.question_history = s.question_history \o <<NL>> \o <<QUESTION>> \o q]

\* Variant: the follow-up is appended to question_history only.
handle_followup_question_thread_only(s, q) ==
    [s EXCEPT !.question = q,
              !.total_followups = s.total_followups + 1,
              !.question_history = s.question_history \o <<NL>> \o <<QUESTION>> \o q]

handle_followup_question(s, q) ==
    [s EXCEPT !.question = q,
              !.total_followups = s.total_followups + 1,
              !.history = s.history \o <<NL>> \o <<QUESTION>> \o q,
              !.question_history = s.question_history \o <<NL>> \o <<QUESTION>> \o q]

\* Variant: the answer is appended to history only.
human_answer_question_history_only(s, a) ==
    [s EXCEPT !.history = s.history \o <<NL>> \o <<ANSWER>> \o a]

\* Variant: the answer is appended without the line break.
human_answer_question_no_newline(s, a) ==
    [s EXCEPT !.history = s.history \o <<ANSWER>> \o a,
              !.question_history = s.question_history \o <<ANSWER>> \o a]

\* Variant: recording the answer also clears question.
human_answer_question_clears(s, a) ==
    [s EXCEPT !.question = <<>>,
              !.history = s.history \o <<NL>> \o <<ANSWER>> \o a,
              !.question_history = s.question_history \o <<NL>> \o <<ANSWER>> \o a]

human_answer_question(s, a) ==
    [s EXCEPT !.history = s.history \o <<NL>> \o <<ANSWER>> \o a,
              !.question_history = s.question_history \o <<NL>> \o <<ANSWER>> \o a]

judge_candidate(s, j) ==
    [s EXCEPT !.result = j]

\* Variant: the follow-up test is <= instead of <.
check_followup_inclusive(s) ==
    IF s.total_questions = max_questions /\ s.total_followups = max_followups
    THEN "judge_candidate"
    ELSE IF s.total_followups <= max_followups
         THEN "handle_followup_question"
         ELSE "handle_next_question"

\* Variant: the judgement test looks at total_questions only.
check_judge_on_questions_only(s) ==
    IF s.total_questions = max_questions
    THEN "judge_candidate"
    ELSE IF s.total_followups < max_followups
         THEN "handle_followup_question"
         ELSE "handle_next_question"

\* Variant: follow-ups are asked for the last primary question only.
check_followups_on_last_only(s) ==
    IF s.total_questions = max_questions /\ s.total_followups = max_followups
    THEN "judge_candidate"
    ELSE IF s.total_followups < max_followups /\ s.total_questions = max_questions
         THEN "handle_followup_question"
         ELSE "handle_next_question"

check_for_followup_or_judgement(s) ==
    IF s.total_questions = max_questions /\ s.total_followups = max_followups
    THEN "judge_candidate"
    ELSE IF s.total_followups < max_followups
         THEN "handle_followup_question"
         ELSE "handle_next_question"

\* Variant: the input loop accepts every line.
NotAnswer_never(a) == FALSE

\* `not answer` of lines 202 and 205.
NotAnswer(a) == a = <<>>

\* Variant: the interview loop never ends.
NotResult_always(s) == TRUE

\* `not interview["result"]` of line 195.
NotResult(s) == s.result = <<>>

\* app.invoke is executing graph nodes.
Invoking == pc \in {"start", "resume"}

Init ==
    /\ pc = "parse"
    /\ role_given \in BOOLEAN
    /\ filename_given \in BOOLEAN
    /\ max_questions \in MaxQuestionsOptions
    /\ max_followups \in MaxFollowupsOptions
    /\ state = InitialInput
    /\ next_node = "none"
    /\ answer = <<>>
    /\ out = <<>>
    /\ question_calls = 0
    /\ judgement_calls = 0

\* click rejects the command line: a required option or argument is missing.
click_usage_error ==
    /\ pc = "parse"
    /\ ~(role_given /\ filename_given)
    /\ pc' = "usage_error"
    /\ UNCHANGED <<role_given, filename_given, max_questions, max_followups,
                   state, next_node, answer, out, question_calls, judgement_calls>>

\* The first app.invoke: the thread is created with the initial input and the
\* graph starts at its entry point.
app_invoke_start ==
    /\ pc = "parse"
    /\ role_given /\ filename_given
    /\ pc' = "start"
    /\ state' = InitialInput
    /\ next_node' = "handle_next_question"
    /\ UNCHANGED <<role_given, filename_given, max_questions, max_followups,
                   answer, out, question_calls, judgement_calls>>

node_handle_next_question ==
    /\ Invoking
    /\ next_node = "handle_next_question"
    /\ state.total_questions < QuestionCap
    /\ \E q \in QuestionTexts : state' = handle_next_question(state, q)
    /\ question_calls' = question_calls + 1
    /\ next_node' = "human_answer_question"
    /\ UNCHANGED <<pc, role_given, filename_given, max_questions, max_followups,
                   answer, out, judgement_calls>>

\* Variant: the edge out of handle_followup_question leads to
\* handle_next_question.
node_handle_followup_question_wrong_edge ==
    /\ pc \in {"start", "resume"}
    /\ next_node = "handle_followup_question"
    /\ \E q \in QuestionTexts : state' = handle_followup_question(state, q)
    /\ question_calls' = question_calls + 1
    /\ next_node' = "handle_next_question"
    /\ UNCHANGED <<pc, role_given, filename_given, max_questions, max_followups,
                   answer, out, judgement_calls>>

node_handle_followup_question ==
    /\ Invoking
    /\ next_node = "handle_followup_question"
    /\ \E q \in QuestionTexts : state' = handle_followup_question(state, q)
    /\ question_calls' = question_calls + 1
    /\ next_node' = "human_answer_question"
    /\ UNCHANGED <<pc, role_given, filename_given, max_questions, max_followups,
                   answer, out, judgement_calls>>

\* judge_candidate has no outgoing edge: the graph ends and app.invoke returns.
node_judge_candidate ==
    /\ Invoking
    /\ next_node = "judge_candidate"
    /\ \E j \in JudgementTexts : state' = judge_candidate(state, j)
    /\ judgement_calls' = judgement_calls + 1
    /\ next_node' = "end"
    /\ pc' = "loop"
    /\ UNCHANGED <<role_given, filename_given, max_questions, max_followups,
                   answer, out, question_calls>>

\* Variant: the node counts its question before llm.invoke raises.
llm_invoke_raises_after_update ==
    /\ pc \in {"start", "resume"}
    /\ next_node \in {"handle_next_question", "handle_followup_question", "judge_candidate"}
    /\ state' = [state EXCEPT !.total_questions = state.total_questions + 1]
    /\ pc' = "crashed"
    /\ UNCHANGED <<role_given, filename_given, max_questions, max_followups,
                   next_node, answer, out, question_calls, judgement_calls>>

\* llm.invoke raises inside a node: the node returns no update and the
\* exception leaves app.invoke and the command.
llm_invoke_raises ==
    /\ Invoking
    /\ next_node \in {"handle_next_question", "handle_followup_question", "judge_candidate"}
    /\ next_node = "handle_next_question" => state.total_questions < QuestionCap
    /\ IF next_node = "judge_candidate"
       THEN judgement_calls' = judgement_calls + 1 /\ UNCHANGED question_calls
       ELSE question_calls' = question_calls + 1 /\ UNCHANGED judgement_calls
    /\ pc' = "crashed"
    /\ UNCHANGED <<role_given, filename_given, max_questions, max_followups,
                   state, next_node, answer, out>>

\* human_answer_question reaches interrupt(state["question"]) with no resume
\* value: the graph suspends and app.invoke returns the state.
interrupt ==
    /\ Invoking
    /\ next_node = "human_answer_question"
    /\ pc' = "loop"
    /\ UNCHANGED <<role_given, filename_given, max_questions, max_followups,
                   state, next_node, answer, out, question_calls, judgement_calls>>

\* The test of `while not interview["result"]`: show the question and clear
\* answer, or leave the loop and print the result.
interview_loop ==
    /\ pc = "loop"
    /\ IF NotResult(state)
       THEN /\ out' = <<"Question: ">> \o state.question
            /\ answer' = <<>>
            /\ pc' = "prompt"
       ELSE /\ out' = state.result
            /\ pc' = "exit"
            /\ UNCHANGED answer
    /\ UNCHANGED <<role_given, filename_given, max_questions, max_followups,
                   state, next_node, question_calls, judgement_calls>>

\* One pass of `while not answer`: read a line; an empty line is refused, any
\* other line resumes the graph, where human_answer_question records it and
\* the conditional edge picks the next node.
input_answer(a) ==
    /\ pc = "prompt"
    /\ answer' = a
    /\ IF NotAnswer(a)
       THEN /\ out' = <<"Please provide an answer.">>
            /\ UNCHANGED <<pc, state, next_node>>
       ELSE /\ pc' = "resume"
            /\ state' = human_answer_question(state, a)
            /\ next_node' = check_for_followup_or_judgement(state')
            /\ UNCHANGED out
    /\ UNCHANGED <<role_given, filename_given, max_questions, max_followups,
                   question_calls, judgement_calls>>

read_input == \E a \in InputTexts : input_answer(a)

Next ==
    \/ click_usage_error
    \/ app_invoke_start
    \/ node_handle_next_question
    \/ node_handle_followup_question
    \/ node_judge_candidate
    \/ llm_invoke_raises
    \/ interrupt
    \/ interview_loop
    \/ read_input

Spec == Init /\ [][Next]_vars

\* The program keeps running: click, the graph and the loop take their steps
\* (whether llm.invoke returns or raises, and what the user types, stay open).
LiveSpec ==
    /\ Spec
    /\ WF_vars(click_usage_error \/ app_invoke_start)
    /\ WF_vars(node_handle_next_question \/ node_handle_followup_question
               \/ node_judge_candidate \/ llm_invoke_raises)
    /\ WF_vars(interrupt)
    /\ WF_vars(interview_loop)

----------------------------------------------------------------------------
\* Vocabulary of the properties.

ValidConfig == max_questions >= 1 /\ max_followups >= 0

BothLimits(s) ==
    s.total_questions = max_questions /\ s.total_followups = max_followups

\* Number of occurrences of token t in string str.
CountToken(str, t) == Cardinality({i \in DOMAIN str : str[i] = t})

\* The conditional edge has just chosen next_node for a recorded answer.
Routed ==
    /\ next_node \in {"judge_candidate", "handle_followup_question", "handle_next_question"}
    /\ state.history # <<>>

\* Only whitespace (str.strip() is empty); the empty string included.
IsBlank(a) == \A i \in DOMAIN a : a[i] = " "

----------------------------------------------------------------------------
\* C1: with max_questions >= 1 and max_followups >= 0, total_questions never
\* exceeds max_questions and total_followups never exceeds max_followups.
C1_CountersWithinLimits ==
    ValidConfig =>
        /\ state.total_questions <= max_questions
        /\ state.total_followups <= max_followups

C1_Witness ==
    /\ max_questions >= 2 /\ max_followups >= 1
    /\ BothLimits(state)
    /\ pc = "prompt"

\* C2: the routing decision taken after an answer is recorded picks
\* judge_candidate exactly when total_questions = max_questions and
\* total_followups = max_followups, and wherever the graph is at or past
\* judge_candidate, or result is set, both equalities hold.
C2_JudgementIffBothLimits ==
    /\ Routed => (next_node = "judge_candidate" <=> BothLimits(state))
    /\ (next_node \in {"judge_candidate", "end"} \/ state.result # <<>>)
           => BothLimits(state)

C2_Witness ==
    /\ state.result # <<>>
    /\ next_node = "end"
    /\ max_questions >= 2 /\ max_followups >= 1

\* C3: with a valid configuration, if no llm.invoke raises and every prompt
\* is eventually answered with a line that resumes the graph, the command
\* eventually leaves the loop and prints a non-empty result.
C3_Terminates ==
    ( /\ ValidConfig /\ role_given /\ filename_given
      /\ [](pc # "crashed")
      /\ [](pc = "prompt" => <>(pc = "resume")) )
    => <>(pc = "exit" /\ state.result # <<>> /\ out = state.result)

C3_Witness ==
    /\ pc = "exit"
    /\ state.result # <<>>
    /\ max_questions >= 2 /\ max_followups >= 1

\* C4: with a valid configuration, once result is set exactly
\* max_questions * (1 + max_followups) question generations and exactly one
\* judgement generation have been called.
C4_GenerationCalls ==
    (ValidConfig /\ state.result # <<>>) =>
        /\ question_calls = max_questions * (1 + max_followups)
        /\ judgement_calls = 1

C4_Witness ==
    /\ state.result # <<>>
    /\ max_questions = 1 /\ max_followups = 1
    /\ question_calls + judgement_calls = 3

\* C5: when the edge routes to another primary question, or to the
\* judgement, the current question has had exactly max_followups follow-ups
\* and every question of its thread has been answered; the judgement comes
\* only with the last primary question.
C5_FollowupsExhaustedFirst ==
    LET spent ==
            /\ state.total_followups = max_followups
            /\ CountToken(state.question_history, QUESTION) = 1 + max_followups
            /\ CountToken(state.question_history, ANSWER) = 1 + max_followups
    IN  /\ (Routed /\ next_node = "handle_next_question") => spent
        /\ next_node \in {"judge_candidate", "end"}
               => (spent /\ state.total_questions = max_questions)

C5_Witness ==
    /\ Routed /\ next_node = "handle_next_question"
    /\ ValidConfig /\ max_followups >= 1
    /\ state.total_questions < max_questions

\* C6 (as claimed): an input that is empty or only whitespace, read while a
\* question is pending, is refused and changes neither the state, the next
\* node nor the generation counts: the graph is not resumed (stated for valid
\* configurations).
C6_BlankAnswerRejected ==
    [][(ValidConfig /\ pc = "prompt" /\ IsBlank(answer')) =>
           /\ pc' = "prompt"
           /\ UNCHANGED <<state, next_node, question_calls, judgement_calls>>]_vars

\* C6 (amended): an empty input read while a question is pending is refused
\* with "Please provide an answer." and changes neither the state, the next
\* node nor the generation counts: the graph is not resumed.
C6_EmptyAnswerRejected ==
    [][(pc = "prompt" /\ answer' = <<>>) =>
           /\ pc' = "prompt"
           /\ out' = <<"Please provide an answer.">>
           /\ UNCHANGED <<state, next_node, question_calls, judgement_calls>>]_vars

C6_Witness ==
    /\ ValidConfig
    /\ pc = "prompt"
    /\ answer = <<>>
    /\ out = <<"Please provide an answer.">>
    /\ state.question # <<>>

C9_ExactlyOneOf ==
    LET pending == state.question # <<>>
        done == state.result # <<>>
        fresh == state = InitialInput
    IN  ValidConfig =>
            /\ \/ pending /\ ~done /\ ~fresh
               \/ ~pending /\ done /\ ~fresh
               \/ ~pending /\ ~done /\ fresh
            /\ Routed => ~pending

\* C9 (amended): exactly one of {question set, fresh state} holds; question
\* is never cleared, so it is still set when the answer has been recorded
\* and when result is set, and result is set only when the graph has ended.
C9_QuestionStaysSet ==
    /\ (state.question # <<>>) <=> (state # InitialInput)
    /\ Routed => state.question # <<>>
    /\ state.result # <<>> => (state.question # <<>> /\ next_node = "end")

C9_Witness ==
    /\ ValidConfig
    /\ state.result # <<>>
    /\ state.question # <<>>
    /\ pc = "loop"

\* C10: a command line with a non-positive max_questions, or without role or
\* resume, is rejected before any thread is created and before any
\* generation call.
C10_InvalidConfigurationRejected ==
    (max_questions <= 0 \/ ~role_given \/ ~filename_given) =>
        /\ pc \in {"parse", "usage_error"}
        /\ next_node = "none"
        /\ question_calls = 0 /\ judgement_calls = 0

----------------------------------------------------------------------------
\* Lines of a string, as str.split("\n") cuts it.

\* Position i of str is the first position of a line.
LineStart(str, i) == i = 1 \/ str[i - 1] = NL

\* len(str.split("\n")).
NumLines(str) == CountToken(str, NL) + 1

\* Positions at which a line with the given first token starts.
LinesWith(str, prefix) ==
    {i \in DOMAIN str : str[i] = prefix /\ LineStart(str, i)}

LineCount(str, prefix) == Cardinality(LinesWith(str, prefix))

\* The QUESTION and ANSWER lines alternate, the first of them a QUESTION.
Alternating(str) ==
    LET marked == LinesWith(str, QUESTION) \cup LinesWith(str, ANSWER)
    IN  \A i \in marked :
            str[i] = IF Cardinality({j \in marked : j < i}) % 2 = 0
                     THEN QUESTION ELSE ANSWER

IsPrefix(a, b) == Len(a) <= Len(b) /\ SubSeq(b, 1, Len(a)) = a

IsSuffix(a, b) ==
    Len(a) <= Len(b) /\ SubSeq(b, Len(b) - Len(a) + 1, Len(b)) = a

\* app.invoke has returned to the command.
Returned == pc \in {"loop", "prompt", "exit"}

\* The graph is suspended in human_answer_question.
Suspended == Returned /\ next_node = "human_answer_question"

----------------------------------------------------------------------------
\* C11: whenever app.invoke has returned, either the graph is suspended in
\* human_answer_question with a non-empty question that is the last line of
\* history, exactly one question being unanswered and every generation call
\* having produced one question line, or the graph has ended with a
\* non-empty result; it never rests at a generating node.
C11_ReturnsSuspendedOrDone ==
    Returned =>
        \/ /\ next_node = "human_answer_question"
           /\ state.question # <<>>
           /\ state.result = <<>>
           /\ IsSuffix(<<NL, QUESTION>> \o state.question, state.history)
           /\ LineCount(state.history, QUESTION)
                  = LineCount(state.history, ANSWER) + 1
           /\ question_calls = LineCount(state.history, QUESTION)
           /\ judgement_calls = 0
        \/ /\ next_node = "end"
           /\ state.result # <<>>
           /\ LineCount(state.history, QUESTION) = LineCount(state.history, ANSWER)
           /\ judgement_calls = 1

C11_Witness ==
    /\ ValidConfig
    /\ pc = "prompt"
    /\ state.total_followups >= 1
    /\ LineCount(state.history, ANSWER) >= 1

\* C15 (as claimed): on entering the judgement, history has exactly
\* 2 * max_questions * (1 + max_followups) lines, half QUESTION lines and
\* half ANSWER lines, alternating, the first line a QUESTION line (stated for
\* valid configurations).
C15_TranscriptLines ==
    LET n == max_questions * (1 + max_followups)
    IN  (ValidConfig /\ next_node \in {"judge_candidate", "end"}) =>
            /\ NumLines(state.history) = 2 * n
            /\ LineCount(state.history, QUESTION) = n
            /\ LineCount(state.history, ANSWER) = n
            /\ Alternating(state.history)
            /\ state.history[1] = QUESTION

\* C15 (amended): on entering the judgement, history is a line break
\* followed by 2 * max_questions * (1 + max_followups) lines: split at line
\* breaks it has one empty first line and then that many lines, half
\* QUESTION lines and half ANSWER lines, alternating from a QUESTION line.
C15_TranscriptLinesAfterLeadingBreak ==
    LET n == max_questions * (1 + max_followups)
    IN  (ValidConfig /\ next_node \in {"judge_candidate", "end"}) =>
            /\ state.history[1] = NL
            /\ state.history[2] = QUESTION
            /\ NumLines(state.history) = 2 * n + 1
            /\ LineCount(state.history, QUESTION) = n
            /\ LineCount(state.history, ANSWER) = n
            /\ Alternating(state.history)

C15_Witness ==
    /\ next_node = "judge_candidate"
    /\ max_questions = 2 /\ max_followups = 0
    /\ NumLines(state.history) = 5
    /\ LineCount(state.history, QUESTION) + LineCount(state.history, ANSWER) = 4

\* C16: while the graph is suspended in human_answer_question a step either
\* leaves the state, the next node and the generation counts alone, or it
\* is the receipt of a non-empty answer, which appends one ANSWER line with
\* that answer to history and to question_history and changes nothing else
\* of the state, and makes no generation call.
C16_SuspendedUntilAnswered ==
    [][Suspended =>
          \/ UNCHANGED <<state, next_node, question_calls, judgement_calls>>
          \/ /\ pc = "prompt" /\ pc' = "resume"
             /\ answer' # <<>>
             /\ state' = [state EXCEPT
                    !.history = state.history \o <<NL, ANSWER>> \o answer',
                    !.question_history =
                        state.question_history \o <<NL, ANSWER>> \o answer']
             /\ NumLines(state'.history) = NumLines(state.history) + 1
             /\ NumLines(state'.question_history)
                    = NumLines(state.question_history) + 1
             /\ UNCHANGED <<question_calls, judgement_calls>>]_vars

C16_Witness ==
    /\ ValidConfig
    /\ pc = "resume"
    /\ Routed
    /\ LineCount(state.history, ANSWER) >= 2
    /\ LineCount(state.question_history, ANSWER) >= 1

\* C17: question_history is always a suffix of history that starts at a
\* line start, and a step only ever appends to history.
C17_ThreadIsSuffixOfTranscript ==
    /\ [](/\ IsSuffix(state.question_history, state.history)
          /\ state.question_history # <<>> =>
                 state.history[Len(state.history)
                               - Len(state.question_history)] = NL)
    /\ [][IsPrefix(state.history, state'.history)]_vars

C17_Witness ==
    /\ ValidConfig
    /\ state.total_questions >= 2
    /\ state.total_followups >= 1
    /\ state.question_history # <<>>
    /\ Len(state.question_history) < Len(state.history)

\* C18: a step of handle_next_question leaves question_history holding only
\* the new QUESTION line, adds exactly 1 to total_questions and sets
\* total_followups to 0; a step of handle_followup_question adds exactly 1
\* to total_followups and leaves total_questions unchanged.
C18_CounterSteps ==
    [][/\ (next_node = "handle_next_question" /\ next_node' = "human_answer_question") =>
              /\ state'.question_history = <<QUESTION>> \o state'.question
              /\ NumLines(state'.question_history) = 1
              /\ state'.total_questions = state.total_questions + 1
              /\ state'.total_followups = 0
       /\ (next_node = "handle_followup_question" /\ next_node' = "human_answer_question") =>
              /\ state'.total_followups = state.total_followups + 1
              /\ state'.total_questions = state.total_questions]_vars

C18_Witness ==
    /\ ValidConfig /\ max_followups >= 1
    /\ next_node = "human_answer_question"
    /\ state.total_questions >= 2
    /\ state.total_followups = 0
    /\ state.question_history = <<QUESTION>> \o state.question

\* C19: with a valid configuration, a routing decision taken with
\* total_questions = max_questions goes to handle_followup_question when
\* total_followups < max_followups and to judge_candidate otherwise, never
\* to handle_next_question.
C19_NoPrimaryPastBudget ==
    (ValidConfig /\ Routed /\ state.total_questions = max_questions) =>
        /\ next_node # "handle_next_question"
        /\ next_node = "handle_followup_question"
               <=> state.total_followups < max_followups

C19_Witness ==
    /\ ValidConfig
    /\ Routed
    /\ state.total_questions = max_questions
    /\ next_node = "handle_followup_question"

\* C20: once a primary question has been asked, question_history holds
\* 1 + total_followups QUESTION lines, history holds
\* (total_questions - 1) * (1 + max_followups) + 1 + total_followups of them,
\* and in both the ANSWER lines are one fewer than the QUESTION lines while
\* an answer is awaited and as many otherwise.
C20_CountersMatchLines ==
    LET awaited == IF next_node = "human_answer_question" THEN 1 ELSE 0
    IN  state.total_questions >= 1 =>
            /\ LineCount(state.question_history, QUESTION)
                   = 1 + state.total_followups
            /\ LineCount(state.history, QUESTION)
                   = (state.total_questions - 1) * (1 + max_followups)
                     + 1 + state.total_followups
            /\ LineCount(state.history, ANSWER)
                   = LineCount(state.history, QUESTION) - awaited
            /\ LineCount(state.question_history, ANSWER)
                   = LineCount(state.question_history, QUESTION) - awaited

C20_Witness ==
    /\ ValidConfig
    /\ state.total_questions >= 2
    /\ state.total_followups >= 1
    /\ next_node = "judge_candidate"

====
